---- MODULE Spec2Model ----
(***************************************************************************)
(* A model of scripts/beeminder_sync.py: the paginated fetch of a goal,    *)
(* the local record store and its backing file, the reconciliation of the  *)
(* target goal against the local store (sync_beeminder_with_database),     *)
(* the qualifier (check_and_add_qualifying_meditation) and main, which     *)
(* runs the two over one store.                                            *)
(*                                                                         *)
(* Values are fixed-point numbers with three decimals: a value of m        *)
(* minutes is the integer Val(m), so 34.999 is Val(35) - 1.  Timestamps    *)
(* are unix seconds.  A free text is a sequence of one-character strings.  *)
(***************************************************************************)
EXTENDS Integers, Sequences, FiniteSets, TLC

VARIABLES
    target,          \* the records of the target goal on the remote service
    source,          \* the records of the source goal on the remote service
    nextId,          \* the next record id the remote service hands out
    db,              \* MeditationDatabase.data['datapoints'], in memory
    file,            \* the datapoints in the backing file
    writes,          \* how many times the backing file was written
    pc,              \* the position of the program
    runs,            \* how many calls were started
    beeminder_data,  \* sync: the fetched list
    to_delete,       \* sync: keys of to_delete_from_beeminder not yet visited
    to_add,          \* sync: keys of to_add_to_beeminder not yet visited
    meditation_data, \* qualifier: the fetched list
    narration,       \* qualifier: what the scan printed for each fetched record
    pending,         \* qualifier: entries of qualifying_by_date not yet added
    calls,           \* the delete and create requests of the current call, in order
    derived,         \* every derived record appended so far, with its source record
    fetched_all,     \* whether the current call's fetch returned every record
    prev_clean,      \* whether the previous call fetched every record and every
                     \* request of it succeeded
    prev_data,       \* qualifier: the list the previous call fetched
    page,            \* get_goal_data: the page to request next
    all_datapoints,  \* get_goal_data: the records accumulated so far
    requests,        \* get_goal_data: the page requests of the current call, in order
    auth_token,      \* whether BEEMINDER_AUTH_TOKEN is set in the environment
    steps,           \* main: what the current run has done so far, in order
    quiet_runs       \* -1 once the current run has issued a delete or a create,
                     \* else the number of finished runs of main in a row that
                     \* issued none, counted up to 2

vars == <<target, source, nextId, db, file, writes, pc, runs, beeminder_data,
          to_delete, to_add, meditation_data, narration, pending, calls,
          derived, fetched_all, prev_clean, prev_data, page, all_datapoints,
          requests, auth_token, steps, quiet_runs>>

---------------------------------------------------------------------------
(* Bounds of the model. *)

MaxRecords == 3     \* records put on the target goal and in the local store
                    \* from outside, together
MaxSource == 2      \* records on the source goal
MaxRuns == 2        \* consecutive calls of the operation under study

---------------------------------------------------------------------------
(* Values and configuration. *)

Val(m) == m * 1000

per_page == 300

BEEMINDER_GOAL_SLUG == "meditate-early"

BEEMINDER_SOURCE_GOAL == "meditatev4"

AppleHealthComment == "Auto-entered via Apple Health"

Min2(a, b) == IF a <= b THEN a ELSE b

---------------------------------------------------------------------------
(* BeeminderAPI.get_goal_data: pages of per_page records are requested in  *)
(* order; failPage is the page whose request raises (0: none does).        *)

PageOf(data, n, size) ==
    SubSeq(data, (n - 1) * size + 1, Min2(n * size, Len(data)))

RECURSIVE FetchFrom(_, _, _, _, _)
FetchFrom(data, n, size, failPage, acc) ==
    IF n = failPage THEN acc
    ELSE LET page_data == PageOf(data, n, size) IN
         IF page_data = <<>> THEN acc
         ELSE IF Len(page_data) < size THEN acc \o page_data
         ELSE FetchFrom(data, n + 1, size, failPage, acc \o page_data)

get_goal_data(data, failPage) == FetchFrom(data, 1, per_page, failPage, <<>>)

(* The pages get_goal_data requests when none fails. *)
PagesOf(data) == (Len(data) \div per_page) + 1

---------------------------------------------------------------------------
(* The remote service: a goal is a list of records; a create appends a     *)
(* record with a fresh id, a delete removes the record with the given id.  *)

RemoteRecord(id, timestamp, value, comment) ==
    [id |-> id, timestamp |-> timestamp, value |-> value, comment |-> comment]

RECURSIVE RemoveId(_, _)
RemoveId(goal, id) ==
    IF goal = <<>> THEN <<>>
    ELSE IF Head(goal).id = id THEN RemoveId(Tail(goal), id)
    ELSE <<Head(goal)>> \o RemoveId(Tail(goal), id)

---------------------------------------------------------------------------
(* MeditationDatabase. *)

LocalRecord(value, timestamp, comment) ==
    [value |-> value, timestamp |-> timestamp, comment |-> comment,
     id |-> <<"local", timestamp, value>>]

db_add_datapoint(datapoints, value, timestamp, comment) ==
    Append(datapoints, LocalRecord(value, timestamp, comment))

datapoint_exists(datapoints, timestamp, value) ==
    \E i \in 1..Len(datapoints) :
        datapoints[i].timestamp = timestamp /\ datapoints[i].value = value

Key(dp) == <<dp.timestamp, dp.value>>

KeySet(data) == {Key(data[i]) : i \in 1..Len(data)}

(* A variant that keeps scanning after a match (the break left out). *)
LastMatch(data, k) ==
    data[CHOOSE i \in 1..Len(data) :
            /\ Key(data[i]) = k
            /\ \A j \in (i + 1)..Len(data) : Key(data[j]) # k]

(* The first record of data carrying key k (the inner for ... break loops). *)
FirstMatch(data, k) ==
    data[CHOOSE i \in 1..Len(data) :
            /\ Key(data[i]) = k
            /\ \A j \in 1..(i - 1) : Key(data[j]) # k]

---------------------------------------------------------------------------
(* The position of the program is its call stack: <<>> between calls, the  *)
(* last element is the label of the running function.                      *)

Idle == pc = <<>>

At(label) == pc # <<>> /\ pc[Len(pc)] = label

Goto(label) == pc' = [pc EXCEPT ![Len(pc)] = label]

Return == pc' = SubSeq(pc, 1, Len(pc) - 1)

AllOk(cs) == \A i \in 1..Len(cs) : cs[i].ok

(* BeeminderAPI.add_datapoint on the target goal: the request, its outcome *)
(* ok, and the record the service stores when it succeeds.                 *)
api_add_datapoint(goal_slug, value, timestamp, comment, ok) ==
    /\ calls' = Append(calls, [op |-> "add", goal |-> goal_slug, value |-> value,
                               timestamp |-> timestamp, comment |-> comment,
                               ok |-> ok])
    /\ target' = IF ok
                 THEN Append(target, RemoteRecord(nextId, timestamp, value, comment))
                 ELSE target
    /\ nextId' = IF ok THEN nextId + 1 ELSE nextId
    /\ quiet_runs' = -1

(* BeeminderAPI.delete_datapoint on the target goal. *)
api_delete_datapoint(goal_slug, datapoint_id, ok) ==
    /\ calls' = Append(calls, [op |-> "delete", goal |-> goal_slug,
                               id |-> datapoint_id, ok |-> ok])
    /\ target' = IF ok THEN RemoveId(target, datapoint_id) ELSE target
    /\ nextId' = nextId
    /\ quiet_runs' = -1

(* MeditationDatabase.save. *)
db_save(datapoints) ==
    /\ file' = datapoints
    /\ writes' = writes + 1

---------------------------------------------------------------------------
(* sync_beeminder_with_database(api, db, goal_slug). *)

(* Lines 220-229: the fetch, the two key sets and their differences. *)
SyncFetch(failPage) ==
    /\ At("sync_fetch")
    /\ failPage \in 0..PagesOf(target)
    /\ LET data == get_goal_data(target, failPage) IN
         /\ beeminder_data' = data
         /\ to_delete' = KeySet(data) \ KeySet(db)
         /\ to_add' = KeySet(db) \ KeySet(data)
         /\ fetched_all' = (data = target)
    /\ Goto("sync_loop")
    /\ UNCHANGED <<target, source, nextId, db, file, writes, runs, meditation_data,
                   narration, pending, calls, derived, prev_clean, prev_data,
                   page, all_datapoints, requests, auth_token, steps, quiet_runs>>

(* A variant that pulls a remote-only record into the local store instead *)
(* of deleting it remotely.                                               *)
SyncDeletePull(k, ok) ==
    /\ At("sync_loop")
    /\ k \in to_delete
    /\ db' = db_add_datapoint(db, k[2], k[1], FirstMatch(beeminder_data, k).comment)
    /\ db_save(db')
    /\ to_delete' = to_delete \ {k}
    /\ UNCHANGED <<target, source, nextId, pc, runs, beeminder_data, to_add,
                   meditation_data, narration, pending, calls, derived,
                   fetched_all, prev_clean, prev_data,
                   page, all_datapoints, requests, auth_token, steps, quiet_runs>>

(* A variant in which a failed delete ends both loops. *)
SyncDeleteAbort(k, ok) ==
    /\ At("sync_loop")
    /\ k \in to_delete
    /\ api_delete_datapoint(BEEMINDER_GOAL_SLUG, FirstMatch(beeminder_data, k).id, ok)
    /\ to_delete' = IF ok THEN to_delete \ {k} ELSE {}
    /\ to_add' = IF ok THEN to_add ELSE {}
    /\ UNCHANGED <<source, db, file, writes, pc, runs, beeminder_data,
                   meditation_data, narration, pending, derived, fetched_all, prev_clean, prev_data,
                   page, all_datapoints, requests, auth_token, steps>>

(* Lines 232-237: one iteration of the delete loop, for key k of the set. *)
SyncDelete(k, ok) ==
    /\ At("sync_loop")
    /\ k \in to_delete
    /\ api_delete_datapoint(BEEMINDER_GOAL_SLUG, FirstMatch(beeminder_data, k).id, ok)
    /\ to_delete' = to_delete \ {k}
    /\ UNCHANGED <<source, db, file, writes, pc, runs, beeminder_data, to_add,
                   meditation_data, narration, pending, derived, fetched_all, prev_clean, prev_data,
                   page, all_datapoints, requests, auth_token, steps>>

(* Lines 240-247: one iteration of the add loop, after the delete loop. *)
SyncAdd(k, ok) ==
    /\ At("sync_loop")
    /\ to_delete = {}
    /\ k \in to_add
    /\ api_add_datapoint(BEEMINDER_GOAL_SLUG, k[2], k[1], FirstMatch(db, k).comment, ok)
    /\ to_add' = to_add \ {k}
    /\ UNCHANGED <<source, db, file, writes, pc, runs, beeminder_data, to_delete,
                   meditation_data, narration, pending, derived, fetched_all, prev_clean, prev_data,
                   page, all_datapoints, requests, auth_token, steps>>

(* Line 249: both loops are over; the function returns and its locals are *)
(* gone.                                                                  *)
SyncReturn ==
    /\ At("sync_loop")
    /\ to_delete = {}
    /\ to_add = {}
    /\ Return
    /\ beeminder_data' = <<>>
    /\ calls' = <<>>
    /\ fetched_all' = FALSE
    /\ prev_clean' = (fetched_all /\ AllOk(calls))
    /\ UNCHANGED <<target, source, nextId, db, file, writes, runs, to_delete,
                   to_add, meditation_data, narration, pending, derived, prev_data,
                   page, all_datapoints, requests, auth_token, steps, quiet_runs>>

SyncStep ==
    \/ \E failPage \in 0..1 : SyncFetch(failPage)
    \/ \E k \in to_delete, ok \in BOOLEAN : SyncDelete(k, ok)
    \/ \E k \in to_add, ok \in BOOLEAN : SyncAdd(k, ok)
    \/ SyncReturn

---------------------------------------------------------------------------
(* Reconciliation alone: any remote list and any local list are built      *)
(* first, then sync_beeminder_with_database is called MaxRuns times.       *)

SyncKeys == {<<123, Val(1)>>, <<456, Val(2)>>}

SyncComments == {<<"test1">>, <<"test2">>}

InitStore ==
    /\ target = <<>>
    /\ source = <<>>
    /\ nextId = 1
    /\ db = <<>>
    /\ file = <<>>
    /\ writes = 1
    /\ pc = <<>>
    /\ runs = 0
    /\ beeminder_data = <<>>
    /\ to_delete = {}
    /\ to_add = {}
    /\ meditation_data = <<>>
    /\ narration = <<>>
    /\ pending = <<>>
    /\ calls = <<>>
    /\ derived = <<>>
    /\ fetched_all = FALSE
    /\ prev_clean = FALSE
    /\ prev_data = <<>>
    /\ page = 1
    /\ all_datapoints = <<>>
    /\ requests = <<>>
    /\ auth_token = TRUE
    /\ steps = <<>>
    /\ quiet_runs = 0

(* A record put on the target goal by someone else. *)
PutRemote(timestamp, value) ==
    /\ Idle
    /\ runs = 0
    /\ Len(target) + Len(db) < MaxRecords
    /\ target' = Append(target, RemoteRecord(nextId, timestamp, value, <<>>))
    /\ nextId' = nextId + 1
    /\ UNCHANGED <<source, db, file, writes, pc, runs, beeminder_data, to_delete,
                   to_add, meditation_data, narration, pending, calls, derived,
                   fetched_all, prev_clean, prev_data,
                   page, all_datapoints, requests, auth_token, steps, quiet_runs>>

(* A record added to the local store before the calls. *)
PutLocal(timestamp, value, comment) ==
    /\ Idle
    /\ runs = 0
    /\ Len(target) + Len(db) < MaxRecords
    /\ db' = db_add_datapoint(db, value, timestamp, comment)
    /\ UNCHANGED <<target, source, nextId, file, writes, pc, runs, beeminder_data,
                   to_delete, to_add, meditation_data, narration, pending, calls,
                   derived, fetched_all, prev_clean, prev_data,
                   page, all_datapoints, requests, auth_token, steps, quiet_runs>>

CallSync ==
    /\ Idle
    /\ runs < MaxRuns
    /\ runs' = runs + 1
    /\ pc' = <<"sync_fetch">>
    /\ UNCHANGED <<target, source, nextId, db, file, writes, beeminder_data,
                   to_delete, to_add, meditation_data, narration, pending, calls,
                   derived, fetched_all, prev_clean, prev_data,
                   page, all_datapoints, requests, auth_token, steps, quiet_runs>>

NextSync ==
    \/ \E k \in SyncKeys : PutRemote(k[1], k[2])
    \/ \E k \in SyncKeys, c \in SyncComments : PutLocal(k[1], k[2], c)
    \/ CallSync
    \/ SyncStep

SpecSync == InitStore /\ [][NextSync]_vars

---------------------------------------------------------------------------
(* Dates and times.  A datetime is a record of its calendar fields; the    *)
(* code compares datetimes that carry the same tzinfo object, that is, by  *)
(* their calendar fields.                                                  *)

Datetime(y, mo, d, h, mi, sec) ==
    [year |-> y, month |-> mo, day |-> d, hour |-> h, minute |-> mi, second |-> sec]

DateOf(dt) == <<dt.year, dt.month, dt.day>>

Replace(dt, h, mi, sec) == [dt EXCEPT !.hour = h, !.minute = mi, !.second = sec]

DtFields(dt) == <<dt.year, dt.month, dt.day, dt.hour, dt.minute, dt.second>>

RECURSIVE LexLeq(_, _)
LexLeq(a, b) ==
    IF a = <<>> THEN TRUE
    ELSE IF Head(a) < Head(b) THEN TRUE
    ELSE IF Head(a) > Head(b) THEN FALSE
    ELSE LexLeq(Tail(a), Tail(b))

DtLeq(a, b) == LexLeq(DtFields(a), DtFields(b))

IsLeap(y) == (y % 4 = 0 /\ y % 100 # 0) \/ y % 400 = 0

DaysInMonth(y, mo) ==
    IF mo = 2 THEN (IF IsLeap(y) THEN 29 ELSE 28)
    ELSE IF mo \in {4, 6, 9, 11} THEN 30 ELSE 31

(* The civil date of day number z, counted from 1970-01-01. *)
CivilFromDays(z) ==
    LET zz == z + 719468
        era == zz \div 146097
        doe == zz - era * 146097
        yoe == (doe - doe \div 1460 + doe \div 36524 - doe \div 146096) \div 365
        doy == doe - (365 * yoe + yoe \div 4 - yoe \div 100)
        mp == (5 * doy + 2) \div 153
        d == doy - (153 * mp + 2) \div 5 + 1
        mo == IF mp < 10 THEN mp + 3 ELSE mp - 9
        y == yoe + era * 400 + (IF mo <= 2 THEN 1 ELSE 0)
    IN  <<y, mo, d>>

(* NYC_TZ (America/New_York) for the instants of 2025: daylight time from  *)
(* 2025-03-09 07:00 UTC to 2025-11-02 06:00 UTC.                           *)
DstStart2025 == 1741503600

DstEnd2025 == 1762063200

UtcOffset(timestamp) ==
    IF timestamp >= DstStart2025 /\ timestamp < DstEnd2025 THEN -4 * 3600 ELSE -5 * 3600

(* datetime.fromtimestamp(timestamp, tz=NYC_TZ). *)
fromtimestamp(timestamp) ==
    LET local == timestamp + UtcOffset(timestamp)
        civil == CivilFromDays(local \div 86400)
        secs == local % 86400
    IN  Datetime(civil[1], civil[2], civil[3],
                 secs \div 3600, (secs % 3600) \div 60, secs % 60)

---------------------------------------------------------------------------
(* extract_actual_time_from_apple_health.  The result is <<>> for None and *)
(* <<datetime>> otherwise.                                                 *)

DigitChars == <<"0", "1", "2", "3", "4", "5", "6", "7", "8", "9">>

IsDigit(c) == \E i \in 1..10 : DigitChars[i] = c

DigitVal(c) == (CHOOSE i \in 1..10 : DigitChars[i] = c) - 1

Letters ==
    {"a", "b", "c", "d", "e", "f", "g", "h", "i", "j", "k", "l", "m", "n", "o",
     "p", "q", "r", "s", "t", "u", "v", "w", "x", "y", "z", "A", "B", "C", "D",
     "E", "F", "G", "H", "I", "J", "K", "L", "M", "N", "O", "P", "Q", "R", "S",
     "T", "U", "V", "W", "X", "Y", "Z"}

EnteredAt == <<" ", "e", "n", "t", "e", "r", "e", "d", " ", "a", "t", " ">>

RECURSIVE ToInt(_)
ToInt(digits) ==
    IF digits = <<>> THEN 0
    ELSE 10 * ToInt(SubSeq(digits, 1, Len(digits) - 1)) + DigitVal(digits[Len(digits)])

AllDigits(t) == \A i \in 1..Len(t) : IsDigit(t[i])

(* Whether (\d{4})-([A-Za-z]{3})-(\d{2}) entered at (\d{2}):(\d{2}) matches *)
(* text at position p.                                                     *)
PatternAt(text, p) ==
    /\ p + 27 <= Len(text)
    /\ AllDigits(SubSeq(text, p, p + 3))
    /\ text[p + 4] = "-"
    /\ \A i \in (p + 5)..(p + 7) : text[i] \in Letters
    /\ text[p + 8] = "-"
    /\ AllDigits(SubSeq(text, p + 9, p + 10))
    /\ SubSeq(text, p + 11, p + 22) = EnteredAt
    /\ AllDigits(SubSeq(text, p + 23, p + 24))
    /\ text[p + 25] = ":"
    /\ AllDigits(SubSeq(text, p + 26, p + 27))

(* re.search: the groups of the leftmost match, or <<>>. *)
re_search(text) ==
    IF \E p \in 1..Len(text) : PatternAt(text, p)
    THEN LET p == CHOOSE q \in 1..Len(text) :
                     PatternAt(text, q) /\ \A r \in 1..(q - 1) : ~PatternAt(text, r)
         IN  <<SubSeq(text, p, p + 3), SubSeq(text, p + 5, p + 7),
               SubSeq(text, p + 9, p + 10), SubSeq(text, p + 23, p + 24),
               SubSeq(text, p + 26, p + 27)>>
    ELSE <<>>

MonthNames ==
    << <<"J", "a", "n">>, <<"F", "e", "b">>, <<"M", "a", "r">>, <<"A", "p", "r">>,
       <<"M", "a", "y">>, <<"J", "u", "n">>, <<"J", "u", "l">>, <<"A", "u", "g">>,
       <<"S", "e", "p">>, <<"O", "c", "t">>, <<"N", "o", "v">>, <<"D", "e", "c">> >>

(* month_map.get(month_str): 0 stands for None. *)
month_map(month_str) ==
    IF \E i \in 1..12 : MonthNames[i] = month_str
    THEN CHOOSE i \in 1..12 : MonthNames[i] = month_str
    ELSE 0

(* Whether datetime(year, month, day, hour, minute) raises no ValueError. *)
ValidDatetime(y, mo, d, h, mi) ==
    /\ y >= 1 /\ y <= 9999
    /\ mo >= 1 /\ mo <= 12
    /\ d >= 1 /\ d <= DaysInMonth(y, mo)
    /\ h >= 0 /\ h <= 23
    /\ mi >= 0 /\ mi <= 59

(* A variant without the comment test of line 181. *)
extract_any_comment(datapoint) ==
    LET match == re_search(datapoint.fulltext) IN
    IF match = <<>> THEN <<>>
    ELSE LET month == month_map(match[2]) IN
         IF month = 0 THEN <<>>
         ELSE IF ValidDatetime(ToInt(match[1]), month, ToInt(match[3]),
                               ToInt(match[4]), ToInt(match[5]))
              THEN <<Datetime(ToInt(match[1]), month, ToInt(match[3]),
                              ToInt(match[4]), ToInt(match[5]), 0)>>
              ELSE <<>>

extract_actual_time_from_apple_health(datapoint) ==
    IF datapoint.comment # AppleHealthComment THEN <<>>
    ELSE LET match == re_search(datapoint.fulltext) IN
         IF match = <<>> THEN <<>>
         ELSE LET month == month_map(match[2]) IN
              IF month = 0 THEN <<>>
              ELSE IF ValidDatetime(ToInt(match[1]), month, ToInt(match[3]),
                                    ToInt(match[4]), ToInt(match[5]))
                   THEN <<Datetime(ToInt(match[1]), month, ToInt(match[3]),
                                   ToInt(match[4]), ToInt(match[5]), 0)>>
                   ELSE <<>>

---------------------------------------------------------------------------
(* check_and_add_qualifying_meditation(api, db). *)

SourceRecord(id, timestamp, value, comment, fulltext) ==
    [id |-> id, timestamp |-> timestamp, value |-> value, comment |-> comment,
     fulltext |-> fulltext]

(* Lines 264-273: the occurrence time of a record. *)
meditation_time(datapoint) ==
    LET actual_time == extract_actual_time_from_apple_health(datapoint) IN
    IF actual_time # <<>> THEN actual_time[1] ELSE fromtimestamp(datapoint.timestamp)

(* A variant of the window test of line 282 that excludes 08:30:00. *)
InWindowOpen(t) == DtLeq(Replace(t, 5, 0, 0), t) /\ ~DtLeq(Replace(t, 8, 30, 0), t)

(* Lines 278-282: day_5am <= meditation_time <= day_830am. *)
InWindow(t) == DtLeq(Replace(t, 5, 0, 0), t) /\ DtLeq(t, Replace(t, 8, 30, 0))

(* Lines 282-296: what the loop body decides for one record. *)
Verdict(datapoint, datapoints) ==
    IF ~InWindow(meditation_time(datapoint)) THEN "Not in qualifying time window"
    ELSE IF datapoint.value < Val(35) THEN "Too short"
    ELSE IF datapoint_exists(datapoints, datapoint.timestamp, Val(1)) THEN "Already recorded"
    ELSE "QUALIFYING"

HasDate(qualifying_by_date, date) ==
    \E i \in 1..Len(qualifying_by_date) : qualifying_by_date[i].date = date

EntryOf(qualifying_by_date, date) ==
    qualifying_by_date[CHOOSE i \in 1..Len(qualifying_by_date) :
                           qualifying_by_date[i].date = date]

(* A variant of Store that keeps the shortest record of a date. *)
StoreShortest(qualifying_by_date, datapoint, t) ==
    LET date == DateOf(t)
        entry == [date |-> date, datapoint |-> datapoint, actual_time |-> t]
    IN  IF ~HasDate(qualifying_by_date, date) THEN Append(qualifying_by_date, entry)
        ELSE IF datapoint.value < EntryOf(qualifying_by_date, date).datapoint.value
        THEN [i \in 1..Len(qualifying_by_date) |->
                 IF qualifying_by_date[i].date = date THEN entry
                 ELSE qualifying_by_date[i]]
        ELSE qualifying_by_date

(* Lines 299-303: the dict keeps its keys in insertion order; a longer     *)
(* record of a date already present replaces the entry in place.           *)
Store(qualifying_by_date, datapoint, t) ==
    LET date == DateOf(t)
        entry == [date |-> date, datapoint |-> datapoint, actual_time |-> t]
    IN  IF ~HasDate(qualifying_by_date, date) THEN Append(qualifying_by_date, entry)
        ELSE IF datapoint.value > EntryOf(qualifying_by_date, date).datapoint.value
        THEN [i \in 1..Len(qualifying_by_date) |->
                 IF qualifying_by_date[i].date = date THEN entry
                 ELSE qualifying_by_date[i]]
        ELSE qualifying_by_date

(* Lines 262-303: the loop over the fetched records, from record i on. *)
RECURSIVE Scan(_, _, _, _)
Scan(data, i, datapoints, qualifying_by_date) ==
    IF i > Len(data) THEN qualifying_by_date
    ELSE IF Verdict(data[i], datapoints) = "QUALIFYING"
    THEN Scan(data, i + 1, datapoints,
              Store(qualifying_by_date, data[i], meditation_time(data[i])))
    ELSE Scan(data, i + 1, datapoints, qualifying_by_date)

(* What lines 269, 273 and 283-296 print for each fetched record. *)
Narrate(data, datapoints) ==
    [i \in 1..Len(data) |->
        [id |-> data[i].id,
         kind |-> IF extract_actual_time_from_apple_health(data[i]) # <<>>
                  THEN "Apple Health entry" ELSE "Regular entry",
         time |-> meditation_time(data[i]),
         verdict |-> Verdict(data[i], datapoints)]]

(* Line 312: the comment of a derived record. *)
DerivedComment(value, t) ==
    <<"Early meditation: ", value, " minutes at ", t.hour, ":", t.minute>>

(* Lines 256-303: the fetch of the source goal and the scan. *)
QualScan(failPage) ==
    /\ At("qual_scan")
    /\ failPage \in 0..PagesOf(source)
    /\ LET data == get_goal_data(source, failPage) IN
         /\ meditation_data' = data
         /\ narration' = Narrate(data, db)
         /\ pending' = Scan(data, 1, db, <<>>)
         /\ fetched_all' = (data = source)
    /\ Goto("qual_add")
    /\ UNCHANGED <<target, source, nextId, db, file, writes, runs, beeminder_data,
                   to_delete, to_add, calls, derived, prev_clean, prev_data,
                   page, all_datapoints, requests, auth_token, steps, quiet_runs>>

(* A variant that saves right after the append, before the create. *)
QualAddSaveFirst(ok) ==
    /\ At("qual_add")
    /\ pending # <<>>
    /\ LET datapoint == Head(pending).datapoint
           t == Head(pending).actual_time
           comment == DerivedComment(datapoint.value, t)
       IN  /\ db' = db_add_datapoint(db, Val(1), datapoint.timestamp, comment)
           /\ db_save(db')
           /\ api_add_datapoint(BEEMINDER_GOAL_SLUG, Val(1), datapoint.timestamp,
                                comment, ok)
           /\ derived' = Append(derived, [run |-> runs, src |-> datapoint.id,
                                          timestamp |-> datapoint.timestamp,
                                          date |-> Head(pending).date])
    /\ pending' = Tail(pending)
    /\ UNCHANGED <<source, pc, runs, beeminder_data, to_delete, to_add,
                   meditation_data, narration, fetched_all, prev_clean, prev_data,
                   page, all_datapoints, requests, auth_token, steps>>

(* A variant that appends to the local store only when the create          *)
(* succeeded.                                                              *)
QualAddRollback(ok) ==
    /\ At("qual_add")
    /\ pending # <<>>
    /\ LET datapoint == Head(pending).datapoint
           t == Head(pending).actual_time
           comment == DerivedComment(datapoint.value, t)
       IN  /\ db' = IF ok THEN db_add_datapoint(db, Val(1), datapoint.timestamp, comment)
                    ELSE db
           /\ api_add_datapoint(BEEMINDER_GOAL_SLUG, Val(1), datapoint.timestamp,
                                comment, ok)
           /\ IF ok THEN db_save(db') ELSE UNCHANGED <<file, writes>>
           /\ derived' = IF ok
                         THEN Append(derived, [run |-> runs, src |-> datapoint.id,
                                               timestamp |-> datapoint.timestamp,
                                               date |-> Head(pending).date])
                         ELSE derived
    /\ pending' = Tail(pending)
    /\ UNCHANGED <<source, pc, runs, beeminder_data, to_delete, to_add,
                   meditation_data, narration, fetched_all, prev_clean, prev_data,
                   page, all_datapoints, requests, auth_token, steps>>

(* Lines 307-326: one iteration of the loop over qualifying_by_date. *)
QualAdd(ok) ==
    /\ At("qual_add")
    /\ pending # <<>>
    /\ LET datapoint == Head(pending).datapoint
           t == Head(pending).actual_time
           comment == DerivedComment(datapoint.value, t)
       IN  /\ db' = db_add_datapoint(db, Val(1), datapoint.timestamp, comment)
           /\ api_add_datapoint(BEEMINDER_GOAL_SLUG, Val(1), datapoint.timestamp,
                                comment, ok)
           /\ IF ok THEN db_save(db') ELSE UNCHANGED <<file, writes>>
           /\ derived' = Append(derived, [run |-> runs, src |-> datapoint.id,
                                          timestamp |-> datapoint.timestamp,
                                          date |-> Head(pending).date])
    /\ pending' = Tail(pending)
    /\ UNCHANGED <<source, pc, runs, beeminder_data, to_delete, to_add,
                   meditation_data, narration, fetched_all, prev_clean, prev_data,
                   page, all_datapoints, requests, auth_token, steps>>

(* Lines 328-331: the loop is over; the function returns and its locals    *)
(* are gone.                                                               *)
QualReturn ==
    /\ At("qual_add")
    /\ pending = <<>>
    /\ Return
    /\ meditation_data' = <<>>
    /\ narration' = <<>>
    /\ calls' = <<>>
    /\ fetched_all' = FALSE
    /\ prev_clean' = (fetched_all /\ AllOk(calls))
    /\ prev_data' = meditation_data
    /\ UNCHANGED <<target, source, nextId, db, file, writes, runs, beeminder_data,
                   to_delete, to_add, pending, derived,
                   page, all_datapoints, requests, auth_token, steps, quiet_runs>>

QualStep ==
    \/ \E failPage \in 0..1 : QualScan(failPage)
    \/ \E ok \in BOOLEAN : QualAdd(ok)
    \/ QualReturn

---------------------------------------------------------------------------
(* The qualifier alone: from an empty local store it is called MaxRuns     *)
(* times, the source goal gaining records before and between the calls.    *)

(* 2025-09-26 00:00:00 in New York: the tests' end-of-day timestamp of    *)
(* that day, 1758945599, is its 23:59:59.                                 *)
Day0 == 1758945599 - 86399

TimeOn(day, h, mi, sec) == Day0 + day * 86400 + h * 3600 + mi * 60 + sec

RECURSIVE Digits(_, _)
Digits(n, width) ==
    IF width = 0 THEN <<>>
    ELSE Digits(n \div 10, width - 1) \o <<DigitChars[(n % 10) + 1]>>

(* The free text "YYYY-Mon-DD entered at HH:MM by z". *)
EnteredText(y, mon, d, h, mi) ==
    Digits(y, 4) \o <<"-">> \o mon \o <<"-">> \o Digits(d, 2) \o EnteredAt
        \o Digits(h, 2) \o <<":">> \o Digits(mi, 2) \o <<" ", "b", "y", " ", "z">>

Sep == <<"S", "e", "p">>

ManualSources ==
    {[timestamp |-> t, value |-> v, comment |-> "Manual entry", fulltext |-> <<>>] :
        t \in {TimeOn(0, 4, 59, 59), TimeOn(0, 5, 0, 0), TimeOn(0, 8, 30, 0),
               TimeOn(0, 8, 30, 1)},
        v \in {Val(35), Val(50)}}
    \cup {[timestamp |-> TimeOn(0, 5, 0, 0), value |-> Val(35) - 1,
           comment |-> "Manual entry", fulltext |-> <<>>],
          [timestamp |-> TimeOn(1, 6, 0, 0), value |-> Val(35),
           comment |-> "Manual entry", fulltext |-> <<>>],
          [timestamp |-> TimeOn(0, 23, 59, 59), value |-> Val(50),
           comment |-> "Manual entry",
           fulltext |-> EnteredText(2025, Sep, 26, 7, 21)]}

AppleSources ==
    {[timestamp |-> TimeOn(0, 23, 59, 59), value |-> Val(50),
      comment |-> AppleHealthComment,
      fulltext |-> EnteredText(2025, Sep, 26, 7, 21)],
     [timestamp |-> TimeOn(0, 23, 59, 59), value |-> Val(35),
      comment |-> AppleHealthComment,
      fulltext |-> EnteredText(2025, Sep, 27, 7, 21)],
     [timestamp |-> TimeOn(0, 5, 0, 0), value |-> Val(50),
      comment |-> AppleHealthComment,
      fulltext |-> EnteredText(2025, Sep, 26, 14, 0)]}

UnresolvableTexts ==
    {<<>>,
     <<"I", "n", "v", "a", "l", "i", "d">>,
     EnteredText(2025, <<"I", "n", "v">>, 26, 7, 21),
     EnteredText(2025, <<"F", "e", "b">>, 30, 7, 21),
     EnteredText(2025, Sep, 26, 25, 61)}

UnresolvableSources ==
    {[timestamp |-> TimeOn(0, 8, 30, 0), value |-> Val(50),
      comment |-> AppleHealthComment, fulltext |-> text] : text \in UnresolvableTexts}

SourcePool == ManualSources \cup AppleSources \cup UnresolvableSources

(* A record logged on the source goal. *)
AddSource(r) ==
    /\ Idle
    /\ Len(source) < MaxSource
    /\ source' = Append(source, SourceRecord(nextId, r.timestamp, r.value,
                                             r.comment, r.fulltext))
    /\ nextId' = nextId + 1
    /\ UNCHANGED <<target, db, file, writes, pc, runs, beeminder_data, to_delete,
                   to_add, meditation_data, narration, pending, calls, derived,
                   fetched_all, prev_clean, prev_data,
                   page, all_datapoints, requests, auth_token, steps, quiet_runs>>

CallQual ==
    /\ Idle
    /\ runs < MaxRuns
    /\ runs' = runs + 1
    /\ pc' = <<"qual_scan">>
    /\ UNCHANGED <<target, source, nextId, db, file, writes, beeminder_data,
                   to_delete, to_add, meditation_data, narration, pending, calls,
                   derived, fetched_all, prev_clean, prev_data,
                   page, all_datapoints, requests, auth_token, steps, quiet_runs>>

NextQual ==
    \/ \E r \in SourcePool : AddSource(r)
    \/ CallQual
    \/ QualStep

SpecQual == InitStore /\ [][NextQual]_vars

---------------------------------------------------------------------------
(* Properties of the reconciliation, checked under SpecSync. *)

(* Both loops of sync_beeminder_with_database are over (line 249). *)
SyncOver == At("sync_loop") /\ to_delete = {} /\ to_add = {}

InSync == At("sync_fetch") \/ At("sync_loop")

Deletes == {i \in 1..Len(calls) : calls[i].op = "delete"}

Adds == {i \in 1..Len(calls) : calls[i].op = "add"}

(* The least index of data whose record carries key k. *)
LeastIndex(data, k) ==
    CHOOSE i \in 1..Len(data) :
        Key(data[i]) = k /\ \A j \in 1..Len(data) : Key(data[j]) = k => i <= j

Occurrences(data, k) == Cardinality({i \in 1..Len(data) : Key(data[i]) = k})

(* C1: when a call of sync_beeminder_with_database is over it has issued   *)
(* exactly one delete per key of the fetched list that no local record     *)
(* carries, addressed to the id of the first fetched record with that key, *)
(* exactly one create per key of the local list that no fetched record     *)
(* carries, with the comment of the first local record with that key, and  *)
(* no other request; the fetched list is the remote list when no page      *)
(* failed.                                                                 *)
C1_SymmetricDifference ==
    /\ (At("sync_loop") /\ fetched_all /\ calls = <<>>) => beeminder_data = target
    /\ SyncOver =>
         LET remoteOnly == KeySet(beeminder_data) \ KeySet(db)
             localOnly == KeySet(db) \ KeySet(beeminder_data)
         IN  /\ \A k \in remoteOnly :
                    Cardinality({i \in Deletes :
                        calls[i].id = beeminder_data[LeastIndex(beeminder_data, k)].id}) = 1
             /\ Cardinality(Deletes) = Cardinality(remoteOnly)
             /\ \A k \in localOnly :
                    Cardinality({i \in Adds :
                        /\ calls[i].timestamp = k[1]
                        /\ calls[i].value = k[2]
                        /\ calls[i].comment = db[LeastIndex(db, k)].comment}) = 1
             /\ Cardinality(Adds) = Cardinality(localOnly)
             /\ \A i \in 1..Len(calls) : calls[i].goal = BEEMINDER_GOAL_SLUG

(* A call is over that deleted for a key two fetched records carry and     *)
(* created for a local-only key.                                           *)
C1_Witness ==
    /\ SyncOver
    /\ Adds # {}
    /\ \E i \in Deletes : \E k \in KeySet(beeminder_data) :
          /\ Occurrences(beeminder_data, k) = 2
          /\ calls[i].id = beeminder_data[LeastIndex(beeminder_data, k)].id

(* C2: a second call in a row, after a first call that fetched every       *)
(* record and whose requests all succeeded, issues no delete and no create.*)
C2_SecondRunIssuesNothing ==
    (SyncOver /\ runs >= 2 /\ prev_clean /\ fetched_all) => calls = <<>>

(* C3: after a call that fetched every remote record and whose requests    *)
(* all succeeded, the keys on the remote goal are the keys in the local    *)
(* store.                                                                  *)
C3_RemoteKeysEqualLocalKeys ==
    (SyncOver /\ fetched_all /\ AllOk(calls)) => KeySet(target) = KeySet(db)

(* C4: no step of sync_beeminder_with_database changes the local record    *)
(* list or writes the backing file, whatever the fetch, the deletes and    *)
(* the creates return.                                                     *)
C4_LocalStoreUnchanged ==
    [][InSync => (db' = db /\ file' = file /\ writes' = writes)]_vars

(* A call over a non-empty local store is over with a failed request and a *)
(* successful one.                                                         *)
C4_Witness ==
    /\ SyncOver
    /\ db # <<>>
    /\ \E i, j \in 1..Len(calls) : calls[i].ok /\ ~calls[j].ok

---------------------------------------------------------------------------
(* Properties of the qualifier, checked under SpecQual, where the local    *)
(* store holds exactly the derived records: db[j] is the record that       *)
(* derived[j] describes.                                                   *)

(* The loop over qualifying_by_date is over (line 328). *)
QualOver == At("qual_add") /\ pending = <<>>

(* The derived records appended by the current call. *)
ThisRun == {j \in 1..Len(derived) : derived[j].run = runs}

Accepted(i) ==
    narration[i].verdict \notin {"Not in qualifying time window", "Too short"}

Survivors == {i \in 1..Len(meditation_data) : narration[i].verdict = "QUALIFYING"}

SecondOfDay(t) == t.hour * 3600 + t.minute * 60 + t.second

(* The source record with the given id. *)
SourceById(id) == source[CHOOSE i \in 1..Len(source) : source[i].id = id]

Marked(dp) == dp.comment = AppleHealthComment

(* C5: the local store never holds two derived records for the same        *)
(* calendar day of the occurrence times of their source records.           *)
C5_OneDerivedPerDay ==
    /\ Len(db) = Len(derived)
    /\ \A i, j \in 1..Len(db) :
          (db[i].value = Val(1) /\ db[j].value = Val(1)
              /\ derived[i].date = derived[j].date) => i = j

(* C6: when a call of the qualifier is over, for every date that has a     *)
(* surviving record exactly one derived record was appended by the call,   *)
(* with value 1 and the timestamp of a surviving record of that date of    *)
(* maximal value, and no derived record was appended for another date.     *)
C6_OnePerDateWithMaxValue ==
    QualOver =>
        /\ Len(db) = Len(derived)
        /\ \A i \in Survivors :
              LET date == DateOf(narration[i].time)
                  onDate == {k \in Survivors : DateOf(narration[k].time) = date}
                  best == {k \in onDate : \A l \in onDate :
                              meditation_data[l].value <= meditation_data[k].value}
                  appended == {j \in ThisRun : derived[j].date = date}
              IN  /\ Cardinality(appended) = 1
                  /\ \A j \in appended :
                        /\ db[j].value = Val(1)
                        /\ \E k \in best :
                              /\ db[j].timestamp = meditation_data[k].timestamp
                              /\ derived[j].src = meditation_data[k].id
        /\ \A j \in ThisRun :
              \E i \in Survivors : DateOf(narration[i].time) = derived[j].date

(* A call is over in which two records of different values survived on one *)
(* date.                                                                   *)
C6_Witness ==
    /\ QualOver
    /\ \E i, k \in Survivors :
          /\ DateOf(narration[i].time) = DateOf(narration[k].time)
          /\ meditation_data[i].value < meditation_data[k].value

(* C7: the filter accepts a record exactly when the time of day of its     *)
(* occurrence is from 05:00:00 to 08:30:00, both included, and its value   *)
(* is at least 35; records logged by hand at 05:00:00 and 08:30:00 with    *)
(* value 35 are accepted, those at 04:59:59, at 08:30:01 or of value       *)
(* 34.999 are rejected, and a rejected record yields no local append and   *)
(* no remote create.                                                       *)
C7_WindowAndDuration ==
    At("qual_add") =>
        /\ \A i \in 1..Len(meditation_data) :
              LET dp == meditation_data[i]
                  sod == SecondOfDay(narration[i].time)
              IN  /\ Accepted(i) <=>
                        (5 * 3600 <= sod /\ sod <= 8 * 3600 + 30 * 60
                            /\ dp.value >= 35000)
                  /\ (~Marked(dp) /\ dp.value = 35000
                        /\ dp.timestamp \in {TimeOn(0, 5, 0, 0), TimeOn(0, 8, 30, 0)})
                     => Accepted(i)
                  /\ (~Marked(dp)
                        /\ dp.timestamp \in {TimeOn(0, 4, 59, 59), TimeOn(0, 8, 30, 1)})
                     => ~Accepted(i)
                  /\ dp.value = 34999 => ~Accepted(i)
                  /\ ~Accepted(i) => \A j \in ThisRun : derived[j].src # dp.id
        /\ Len(calls) = Cardinality(ThisRun)
        /\ \A c \in 1..Len(calls) :
              \E i \in 1..Len(meditation_data) :
                  Accepted(i) /\ calls[c].timestamp = meditation_data[i].timestamp

(* A call is over that derived a record from a record of value 35 logged   *)
(* at 08:30:00 and rejected a record logged at 08:30:01.                   *)
C7_Witness ==
    /\ QualOver
    /\ \E j \in ThisRun :
          /\ SourceById(derived[j].src).timestamp = TimeOn(0, 8, 30, 0)
          /\ SourceById(derived[j].src).value = Val(35)
    /\ \E i \in 1..Len(meditation_data) :
          meditation_data[i].timestamp = TimeOn(0, 8, 30, 1) /\ ~Accepted(i)

(* C8: a call of the qualifier right after a call that fetched the same    *)
(* source records, every request of which succeeded, appends nothing to    *)
(* the local store and issues no create.                                   *)
C8_SecondRunAppendsNothing ==
    (QualOver /\ runs >= 2 /\ fetched_all /\ prev_clean
        /\ prev_data = meditation_data)
    => (ThisRun = {} /\ calls = <<>>)

(* C9: no derived record comes from a source record that carries the       *)
(* auto-import comment and a free text that resolves to no time.           *)
C9_UnresolvableSkipped ==
    \A j \in 1..Len(derived) :
        LET dp == SourceById(derived[j].src) IN
        ~(Marked(dp) /\ dp.fulltext \in UnresolvableTexts)

(* The (day, hour, minute) of the valid free texts of the source records. *)
ValidEntered == {<<26, 7, 21>>, <<27, 7, 21>>, <<26, 14, 0>>}

(* C10: for a record with the auto-import comment and a valid free text    *)
(* the occurrence time, the window test and the date of the derived        *)
(* record are those of the time in the free text; for a record without     *)
(* the comment they are those of the raw timestamp in New York, whatever   *)
(* its free text.                                                          *)
C10_MarkerDecidesTheClock ==
    At("qual_add") =>
        \A i \in 1..Len(meditation_data) :
            LET dp == meditation_data[i]
                t == narration[i].time
                raw == dp.timestamp - Day0
            IN  /\ \A e \in ValidEntered :
                      (Marked(dp) /\ dp.fulltext = EnteredText(2025, Sep, e[1], e[2], e[3]))
                      => /\ narration[i].kind = "Apple Health entry"
                         /\ t = Datetime(2025, 9, e[1], e[2], e[3], 0)
                         /\ (narration[i].verdict # "Not in qualifying time window")
                               <=> (5 * 60 <= e[2] * 60 + e[3] /\ e[2] * 60 + e[3] <= 8 * 60 + 30)
                         /\ \A j \in ThisRun :
                               derived[j].src = dp.id => derived[j].date = <<2025, 9, e[1]>>
                /\ ~Marked(dp)
                      => /\ narration[i].kind = "Regular entry"
                         /\ t = Datetime(2025, 9, 26 + raw \div 86400,
                                         (raw % 86400) \div 3600,
                                         (raw % 3600) \div 60, raw % 60)
                         /\ (narration[i].verdict # "Not in qualifying time window")
                               <=> (5 * 3600 <= raw % 86400 /\ raw % 86400 <= 8 * 3600 + 1800)
                         /\ \A j \in ThisRun :
                               derived[j].src = dp.id
                               => derived[j].date = <<2025, 9, 26 + raw \div 86400>>

(* A call is over that fetched two records equal in timestamp, value and   *)
(* free text, derived a record from the one with the auto-import comment   *)
(* and rejected the other by the window test.                              *)
C10_Witness ==
    /\ QualOver
    /\ \E i, k \in 1..Len(meditation_data) :
          /\ meditation_data[i].timestamp = meditation_data[k].timestamp
          /\ meditation_data[i].value = meditation_data[k].value
          /\ meditation_data[i].fulltext = meditation_data[k].fulltext
          /\ Marked(meditation_data[i])
          /\ ~Marked(meditation_data[k])
          /\ \E j \in ThisRun : derived[j].src = meditation_data[i].id
          /\ narration[k].verdict = "Not in qualifying time window"

---------------------------------------------------------------------------
(* Order and failure of the qualifier's add loop, checked under SpecQual.  *)

HasKey(datapoints, timestamp, value) ==
    \E i \in 1..Len(datapoints) :
        datapoints[i].timestamp = timestamp /\ datapoints[i].value = value

(* The index in db of the record appended with the c-th request of the     *)
(* current call.                                                           *)
DbIndexOfCall(c) == Len(db) - Len(calls) + c

(* The dates of the surviving records of the current call. *)
KeptDates == {DateOf(narration[i].time) : i \in Survivors}

(* C11 as stated: the backing file holds the derived record of every       *)
(* create the qualifier has attempted, whether the create succeeded or     *)
(* not.                                                                    *)
C11_FileHoldsRecordAtCreate ==
    At("qual_add") =>
        \A c \in 1..Len(calls) : HasKey(file, calls[c].timestamp, Val(1))

(* C11 as amended: each iteration appends the derived record to the local  *)
(* store, attempts the create, and saves the store only when the create    *)
(* succeeded.  The store in memory holds the record of every attempted     *)
(* create; the file is the store as of the last successful create, so it   *)
(* holds the record of a successful create and lacks the record of a       *)
(* failed create that no successful one has followed.                      *)
C11_SaveFollowsSuccessfulCreate ==
    At("qual_add") =>
        /\ Len(file) <= Len(db)
        /\ file = SubSeq(db, 1, Len(file))
        /\ \A c \in 1..Len(calls) :
              /\ db[DbIndexOfCall(c)].timestamp = calls[c].timestamp
              /\ db[DbIndexOfCall(c)].value = Val(1)
              /\ calls[c].ok => Len(file) >= DbIndexOfCall(c)
              /\ (~calls[c].ok /\ \A e \in (c + 1)..Len(calls) : ~calls[e].ok)
                    => Len(file) < DbIndexOfCall(c)

(* A call is over whose first create failed and whose second succeeded. *)
C11_Witness ==
    /\ QualOver
    /\ Len(calls) = 2
    /\ ~calls[1].ok
    /\ calls[2].ok

(* C12: when the add loop is over, one create was attempted for every date *)
(* that has a surviving record, and the derived record of every attempted  *)
(* create (value 1, the timestamp of the source record) is in the local    *)
(* store, whether the create returned true or false.                       *)
C12_FailedCreateKeepsAppend ==
    QualOver =>
        /\ Len(calls) = Cardinality(KeptDates)
        /\ Cardinality(ThisRun) = Cardinality(KeptDates)
        /\ \A c \in 1..Len(calls) :
              /\ calls[c].op = "add"
              /\ calls[c].value = Val(1)
              /\ db[DbIndexOfCall(c)].timestamp = calls[c].timestamp
              /\ db[DbIndexOfCall(c)].value = Val(1)
              /\ derived[DbIndexOfCall(c)].run = runs
              /\ SourceById(derived[DbIndexOfCall(c)].src).timestamp = calls[c].timestamp

(* A call is over whose first create failed and that went on to a second   *)
(* candidate.                                                              *)
C12_Witness ==
    /\ QualOver
    /\ Len(calls) = 2
    /\ ~calls[1].ok
    /\ Len(db) >= 2

---------------------------------------------------------------------------
(* Failures inside sync_beeminder_with_database, checked under SpecSync.   *)

(* The key a create request carries. *)
CallKey(c) == <<c.timestamp, c.value>>

Issued == InSync /\ Len(calls') = Len(calls) + 1

(* C16: whatever the deletes and creates return, a call that is over has   *)
(* attempted one delete per remote-only key and one create per local-only  *)
(* key, every delete before every create, no request twice; a request that *)
(* returns false leaves the call where a successful one leaves it, in the  *)
(* loop, and changes nothing on the remote goal.                           *)
C16_FailuresAreIndependent ==
    /\ [](SyncOver =>
            /\ Cardinality(Deletes) = Cardinality(KeySet(beeminder_data) \ KeySet(db))
            /\ Cardinality(Adds) = Cardinality(KeySet(db) \ KeySet(beeminder_data))
            /\ \A i \in Deletes : \A j \in Adds : i < j
            /\ \A i, j \in Deletes : calls[i].id = calls[j].id => i = j
            /\ \A i, j \in Adds : CallKey(calls[i]) = CallKey(calls[j]) => i = j)
    /\ [][(Issued /\ ~calls'[Len(calls')].ok) =>
            /\ pc' = pc
            /\ target' = target
            /\ Cardinality(to_delete') + Cardinality(to_add')
                 = Cardinality(to_delete) + Cardinality(to_add) - 1]_vars

(* A call is over whose first request, a delete, failed and whose second   *)
(* request is a create.                                                    *)
C16_Witness ==
    /\ SyncOver
    /\ Len(calls) = 2
    /\ calls[1].op = "delete" /\ ~calls[1].ok
    /\ calls[2].op = "add"

(* C17: sync_beeminder_with_database issues no create for a key that a     *)
(* record on the remote goal carries when the create is issued, also after *)
(* a fetch that failed on some page.                                       *)
C17_NoCreateForKeyOnRemote ==
    [][(Issued /\ calls'[Len(calls')].op = "add") =>
          Occurrences(target, CallKey(calls'[Len(calls')])) = 0]_vars

---------------------------------------------------------------------------
(* Keys of the records the qualifier appends, checked under SpecQual.      *)

Appended == At("qual_add") /\ Len(db') = Len(db) + 1

(* C19: the qualifier appends no derived record whose key (timestamp, 1)   *)
(* a record of the local store carries when the append happens, records    *)
(* appended earlier in the same call included.                             *)
C19_NoAppendOfPresentKey ==
    [][Appended => ~HasKey(db, db'[Len(db')].timestamp, Val(1))]_vars

---------------------------------------------------------------------------
(* BeeminderAPI.get_goal_data step by step: one action per iteration of    *)
(* its while loop.  The service answers the request for page n with        *)
(* PageOf(target, n, per_page); raises tells whether the request raises a  *)
(* RequestException instead.                                               *)

MaxPages == 2       \* full pages on the goal that is fetched

PageRequest(n, ok, count) == [page |-> n, ok |-> ok, count |-> count]

(* A variant that stops on an empty page only (the second break left out). *)
FetchLoopUntilEmpty(raises) ==
    /\ At("fetch_loop")
    /\ LET page_data == PageOf(target, page, per_page) IN
         IF raises
         THEN /\ requests' = Append(requests, PageRequest(page, FALSE, 0))
              /\ Goto("fetch_done")
              /\ UNCHANGED <<page, all_datapoints>>
         ELSE /\ requests' = Append(requests, PageRequest(page, TRUE, Len(page_data)))
              /\ IF page_data = <<>>
                 THEN /\ Goto("fetch_done")
                      /\ UNCHANGED <<page, all_datapoints>>
                 ELSE /\ all_datapoints' = all_datapoints \o page_data
                      /\ page' = page + 1
                      /\ UNCHANGED pc
    /\ UNCHANGED <<target, source, nextId, db, file, writes, runs, beeminder_data,
                   to_delete, to_add, meditation_data, narration, pending, calls,
                   derived, fetched_all, prev_clean, prev_data, auth_token, steps,
                   quiet_runs>>

(* Lines 55-83: one iteration of the while loop. *)
FetchLoop(raises) ==
    /\ At("fetch_loop")
    /\ LET page_data == PageOf(target, page, per_page) IN
         IF raises
         THEN /\ requests' = Append(requests, PageRequest(page, FALSE, 0))
              /\ Goto("fetch_done")
              /\ UNCHANGED <<page, all_datapoints>>
         ELSE /\ requests' = Append(requests, PageRequest(page, TRUE, Len(page_data)))
              /\ IF page_data = <<>>
                 THEN /\ Goto("fetch_done")
                      /\ UNCHANGED <<page, all_datapoints>>
                 ELSE /\ all_datapoints' = all_datapoints \o page_data
                      /\ IF Len(page_data) < per_page
                         THEN /\ Goto("fetch_done")
                              /\ UNCHANGED page
                         ELSE /\ page' = page + 1
                              /\ UNCHANGED pc
    /\ UNCHANGED <<target, source, nextId, db, file, writes, runs, beeminder_data,
                   to_delete, to_add, meditation_data, narration, pending, calls,
                   derived, fetched_all, prev_clean, prev_data, auth_token, steps,
                   quiet_runs>>

(* Lines 84-85: the loop is left; the function returns all_datapoints and  *)
(* its locals are gone.                                                    *)
FetchReturn ==
    /\ At("fetch_done")
    /\ Return
    /\ page' = 1
    /\ all_datapoints' = <<>>
    /\ requests' = <<>>
    /\ UNCHANGED <<target, source, nextId, db, file, writes, runs, beeminder_data,
                   to_delete, to_add, meditation_data, narration, pending, calls,
                   derived, fetched_all, prev_clean, prev_data, auth_token, steps,
                   quiet_runs>>

FetchStep ==
    \/ \E raises \in BOOLEAN : FetchLoop(raises)
    \/ FetchReturn

---------------------------------------------------------------------------
(* The fetch alone: a goal of some length is served, then get_goal_data is *)
(* called MaxRuns times.                                                   *)

(* The records of the tests' pages: ids 1..n, one second apart, value 30. *)
TestGoal(n) == [i \in 1..n |-> RemoteRecord(i, 1234567890 + i, Val(30), <<>>)]

(* Lengths around the page boundaries. *)
FetchLengths == {p * per_page + d : p \in 0..MaxPages, d \in {0, 1, 2, per_page - 1}}

ServeGoal(n) ==
    /\ Idle
    /\ runs = 0
    /\ target = <<>>
    /\ n > 0
    /\ target' = TestGoal(n)
    /\ nextId' = n + 1
    /\ UNCHANGED <<source, db, file, writes, pc, runs, beeminder_data, to_delete,
                   to_add, meditation_data, narration, pending, calls, derived,
                   fetched_all, prev_clean, prev_data, page, all_datapoints,
                   requests, auth_token, steps, quiet_runs>>

(* Lines 51-52: the call and the initial values of the locals. *)
CallFetch ==
    /\ Idle
    /\ runs < MaxRuns
    /\ runs' = runs + 1
    /\ pc' = <<"fetch_loop">>
    /\ page' = 1
    /\ all_datapoints' = <<>>
    /\ requests' = <<>>
    /\ UNCHANGED <<target, source, nextId, db, file, writes, beeminder_data,
                   to_delete, to_add, meditation_data, narration, pending, calls,
                   derived, fetched_all, prev_clean, prev_data, auth_token, steps,
                   quiet_runs>>

NextFetch ==
    \/ \E n \in FetchLengths : ServeGoal(n)
    \/ CallFetch
    \/ FetchStep

SpecFetch == InitStore /\ [][NextFetch]_vars

---------------------------------------------------------------------------
(* Properties of get_goal_data, checked under SpecFetch. *)

(* The loop of get_goal_data is left (line 84). *)
FetchOver == At("fetch_done")

(* The first m pages of data, one after the other. *)
RECURSIVE ConcatPages(_, _)
ConcatPages(data, m) ==
    IF m = 0 THEN <<>>
    ELSE ConcatPages(data, m - 1) \o PageOf(data, m, per_page)

Received == {i \in 1..Len(requests) : requests[i].ok}

(* C13: get_goal_data requests the pages 1, 2, 3, ... in order, each once; *)
(* it goes on only after a page of 300 records, so the last request is the *)
(* first that failed or returned fewer than 300 records and none follows   *)
(* it; it returns the pages received, one after the other, which is what   *)
(* get_goal_data of the one-step model returns.                            *)
C13_PagesInOrderUntilShortOrFailed ==
    /\ (At("fetch_loop") \/ FetchOver) =>
          /\ \A i \in 1..Len(requests) : requests[i].page = i
          /\ \A i \in 1..(Len(requests) - 1) :
                requests[i].ok /\ requests[i].count = per_page
          /\ \A i \in Received : requests[i].count = Len(PageOf(target, i, per_page))
          /\ all_datapoints = ConcatPages(target, Cardinality(Received))
    /\ At("fetch_loop") =>
          /\ page = Len(requests) + 1
          /\ Received = 1..Len(requests)
          /\ requests # <<>> => requests[Len(requests)].count = per_page
    /\ FetchOver =>
          /\ requests # <<>>
          /\ LET last == requests[Len(requests)] IN
               /\ ~last.ok \/ last.count < per_page
               /\ all_datapoints =
                    get_goal_data(target, IF last.ok THEN 0 ELSE last.page)

(* A fetch is over that received two full pages and a short third one. *)
C13_Witness ==
    /\ FetchOver
    /\ Len(requests) = 3
    /\ requests[3].ok
    /\ requests[3].count \in 1..(per_page - 1)
    /\ Len(all_datapoints) = 2 * per_page + requests[3].count

---------------------------------------------------------------------------
(* main: the token check, the construction of the store, the              *)
(* reconciliation of the target goal, the qualifier and the final save.    *)
(* The backing file exists when it was written at least once.              *)

file_exists == writes > 0

(* MeditationDatabase._load_or_create: the datapoints of the store it      *)
(* returns.                                                                *)
load_or_create == IF file_exists THEN file ELSE <<>>

(* A variant that constructs the store before it looks at the token. *)
MainCheckAfterLoad ==
    /\ At("main")
    /\ db' = load_or_create
    /\ IF file_exists THEN UNCHANGED <<file, writes>> ELSE db_save(<<>>)
    /\ IF auth_token
       THEN /\ Goto("main_load")
            /\ UNCHANGED steps
       ELSE /\ pc' = <<>>
            /\ steps' = Append(steps, "error")
    /\ UNCHANGED <<target, source, nextId, runs, beeminder_data, to_delete,
                   to_add, meditation_data, narration, pending, calls, derived,
                   fetched_all, prev_clean, prev_data, page, all_datapoints,
                   requests, auth_token, quiet_runs>>

(* Lines 341-342: without a token main raises ValueError, which nothing    *)
(* catches: the program ends.                                              *)
MainCheck ==
    /\ At("main")
    /\ IF auth_token
       THEN /\ Goto("main_load")
            /\ UNCHANGED steps
       ELSE /\ pc' = <<>>
            /\ steps' = Append(steps, "error")
    /\ UNCHANGED <<target, source, nextId, db, file, writes, runs, beeminder_data,
                   to_delete, to_add, meditation_data, narration, pending, calls,
                   derived, fetched_all, prev_clean, prev_data, page,
                   all_datapoints, requests, auth_token, quiet_runs>>

(* A variant that starts every run from a new, empty store. *)
MainLoadFresh ==
    /\ At("main_load")
    /\ db' = <<>>
    /\ db_save(<<>>)
    /\ steps' = Append(steps, "load")
    /\ Goto("main_sync")
    /\ UNCHANGED <<target, source, nextId, runs, beeminder_data, to_delete,
                   to_add, meditation_data, narration, pending, calls, derived,
                   fetched_all, prev_clean, prev_data, page, all_datapoints,
                   requests, auth_token, quiet_runs>>

(* Lines 345-346: the store is loaded from the backing file, which is      *)
(* written first, with no datapoints, when it does not exist.              *)
MainLoad ==
    /\ At("main_load")
    /\ db' = load_or_create
    /\ IF file_exists THEN UNCHANGED <<file, writes>> ELSE db_save(<<>>)
    /\ steps' = Append(steps, "load")
    /\ Goto("main_sync")
    /\ UNCHANGED <<target, source, nextId, runs, beeminder_data, to_delete,
                   to_add, meditation_data, narration, pending, calls, derived,
                   fetched_all, prev_clean, prev_data, page, all_datapoints,
                   requests, auth_token, quiet_runs>>

(* Line 349: the call of sync_beeminder_with_database(api, db, goal). *)
MainSync ==
    /\ At("main_sync")
    /\ pc' = <<"main_qualify", "sync_fetch">>
    /\ steps' = Append(steps, "sync")
    /\ UNCHANGED <<target, source, nextId, db, file, writes, runs, beeminder_data,
                   to_delete, to_add, meditation_data, narration, pending, calls,
                   derived, fetched_all, prev_clean, prev_data, page,
                   all_datapoints, requests, auth_token, quiet_runs>>

(* Line 352: the call of check_and_add_qualifying_meditation(api, db). *)
MainQualify ==
    /\ At("main_qualify")
    /\ pc' = <<"main_save", "qual_scan">>
    /\ steps' = Append(steps, "qualify")
    /\ UNCHANGED <<target, source, nextId, db, file, writes, runs, beeminder_data,
                   to_delete, to_add, meditation_data, narration, pending, calls,
                   derived, fetched_all, prev_clean, prev_data, page,
                   all_datapoints, requests, auth_token, quiet_runs>>

(* A variant that leaves the final save out. *)
MainSaveSkipped ==
    /\ At("main_save")
    /\ Goto("main_done")
    /\ UNCHANGED <<target, source, nextId, db, file, writes, runs, beeminder_data,
                   to_delete, to_add, meditation_data, narration, pending, calls,
                   derived, fetched_all, prev_clean, prev_data, page,
                   all_datapoints, requests, auth_token, steps, quiet_runs>>

(* Line 355: the final db.save(). *)
MainSave ==
    /\ At("main_save")
    /\ db_save(db)
    /\ steps' = Append(steps, "save")
    /\ Goto("main_done")
    /\ UNCHANGED <<target, source, nextId, db, runs, beeminder_data, to_delete,
                   to_add, meditation_data, narration, pending, calls, derived,
                   fetched_all, prev_clean, prev_data, page, all_datapoints,
                   requests, auth_token, quiet_runs>>

(* Lines 357-359: main returns and the store object is gone. *)
MainReturn ==
    /\ At("main_done")
    /\ Return
    /\ db' = <<>>
    /\ quiet_runs' = IF quiet_runs < 0 THEN 0 ELSE Min2(quiet_runs + 1, 2)
    /\ UNCHANGED <<target, source, nextId, file, writes, runs, beeminder_data,
                   to_delete, to_add, meditation_data, narration, pending, calls,
                   derived, fetched_all, prev_clean, prev_data, page,
                   all_datapoints, requests, auth_token, steps>>

---------------------------------------------------------------------------
(* Runs of main: records are put on the target goal and logged on the      *)
(* source goal first, then main is run MainRuns times.  A request may fail *)
(* in the runs up to FaultyRuns; from then on every request succeeds.      *)

FaultyRuns == MaxRuns - 1

MainRuns == FaultyRuns + MaxRecords + MaxSource

Outcomes == IF runs <= FaultyRuns THEN BOOLEAN ELSE {TRUE}

FailPages == IF runs <= FaultyRuns THEN 0..1 ELSE {0}

StaleKeys == {<<123, Val(1)>>}

MainPool ==
    {[timestamp |-> TimeOn(0, 5, 0, 0), value |-> Val(35),
      comment |-> "Manual entry", fulltext |-> <<>>],
     [timestamp |-> TimeOn(0, 8, 30, 0), value |-> Val(50),
      comment |-> "Manual entry", fulltext |-> <<>>],
     [timestamp |-> TimeOn(1, 6, 0, 0), value |-> Val(35),
      comment |-> "Manual entry", fulltext |-> <<>>]}

InitMain ==
    /\ target = <<>>
    /\ source = <<>>
    /\ nextId = 1
    /\ db = <<>>
    /\ file = <<>>
    /\ writes = 0
    /\ pc = <<>>
    /\ runs = 0
    /\ beeminder_data = <<>>
    /\ to_delete = {}
    /\ to_add = {}
    /\ meditation_data = <<>>
    /\ narration = <<>>
    /\ pending = <<>>
    /\ calls = <<>>
    /\ derived = <<>>
    /\ fetched_all = FALSE
    /\ prev_clean = FALSE
    /\ prev_data = <<>>
    /\ page = 1
    /\ all_datapoints = <<>>
    /\ requests = <<>>
    /\ auth_token \in BOOLEAN
    /\ steps = <<>>
    /\ quiet_runs = 0

CallMain ==
    /\ Idle
    /\ runs < MainRuns
    /\ runs' = runs + 1
    /\ pc' = <<"main">>
    /\ steps' = <<>>
    /\ UNCHANGED <<target, source, nextId, db, file, writes, beeminder_data,
                   to_delete, to_add, meditation_data, narration, pending, calls,
                   derived, fetched_all, prev_clean, prev_data, page,
                   all_datapoints, requests, auth_token, quiet_runs>>

MainScan == \E failPage \in FailPages : QualScan(failPage)

(* The step from the scan to the add loop, seen on the program counter. *)
ScanStep == At("qual_scan") /\ Goto("qual_add")

(* Every step of a run but the scan of the qualifier. *)
MainOther ==
    \/ \E k \in StaleKeys : source = <<>> /\ PutRemote(k[1], k[2])
    \/ \E r \in MainPool : runs = 0 /\ AddSource(r)
    \/ CallMain
    \/ MainCheck
    \/ MainLoad
    \/ MainSync
    \/ \E failPage \in FailPages : SyncFetch(failPage)
    \/ \E k \in to_delete, ok \in Outcomes : SyncDelete(k, ok)
    \/ \E k \in to_add, ok \in Outcomes : SyncAdd(k, ok)
    \/ SyncReturn
    \/ MainQualify
    \/ \E ok \in Outcomes : QualAdd(ok)
    \/ QualReturn
    \/ MainSave
    \/ MainReturn

NextMain == MainOther \/ MainScan

SpecMain == InitMain /\ [][NextMain]_vars

(* A step that can be taken is taken: the runs are started one after the   *)
(* other and each runs to its end.  The scan is the only step at its       *)
(* label and can always be taken there, so the fairness of it is written   *)
(* on the program counter.                                                 *)
SpecMainFair ==
    /\ SpecMain
    /\ WF_vars(MainOther)
    /\ WF_pc(ScanStep)

---------------------------------------------------------------------------
(* Properties of main, checked under SpecMain and SpecMainFair. *)

(* The final save is done and main is about to return (line 357). *)
MainOver == At("main_done")

MainPlan == <<"load", "sync", "qualify", "save">>

InQual == At("qual_scan") \/ At("qual_add")

(* C14: with the token set, a run of main loads the store, reconciles the  *)
(* target goal, runs the qualifier and saves, in this order and each once; *)
(* the store that is loaded is the one the reconciliation and the          *)
(* qualifier work on, nothing but the qualifier's append changes it, and   *)
(* when main is about to return the backing file holds the records of the  *)
(* store.                                                                  *)
C14_LoadSyncQualifySave ==
    /\ [](auth_token =>
            /\ Len(steps) <= Len(MainPlan)
            /\ steps = SubSeq(MainPlan, 1, Len(steps))
            /\ InSync => steps = SubSeq(MainPlan, 1, 2)
            /\ InQual => steps = SubSeq(MainPlan, 1, 3)
            /\ MainOver => (steps = MainPlan /\ file_exists /\ file = db))
    /\ [][(~Idle /\ db' # db) =>
            \/ At("main_load")
            \/ At("qual_add") /\ db' = Append(db, db'[Len(db')])
            \/ MainOver]_vars

(* A run is about to return whose qualifier appended a record for which    *)
(* the create failed, so that only the final save wrote it to the file.    *)
C14_Witness ==
    /\ MainOver
    /\ runs = 1
    /\ Len(derived) = 1
    /\ target = <<>>
    /\ writes = 2
    /\ Len(file) = 1

(* C15: without the token a run of main ends with the error and does       *)
(* nothing else: it never gets past the token test, so it issues no       *)
(* fetch, no create and no delete, the goals stay as they are, the store   *)
(* is not loaded and its backing file is not created or written.           *)
C15_NoTokenNoEffect ==
    /\ [](~auth_token =>
            /\ pc = <<>> \/ pc = <<"main">>
            /\ steps = <<>> \/ steps = <<"error">>
            /\ (Idle /\ runs > 0) => steps = <<"error">>
            /\ calls = <<>>
            /\ requests = <<>>
            /\ db = <<>>
            /\ ~file_exists)
    /\ [][(~auth_token /\ ~Idle) =>
            /\ target' = target
            /\ source' = source
            /\ nextId' = nextId
            /\ file' = file
            /\ writes' = writes]_vars

(* A run without the token has ended, with records on both goals. *)
C15_Witness ==
    /\ ~auth_token
    /\ Idle
    /\ runs > 0
    /\ steps = <<"error">>
    /\ target # <<>>
    /\ source # <<>>

(* The last run of main that has ended. *)
LastRun == IF Idle THEN runs ELSE runs - 1

(* C18: with the token set, a fixed source goal, nobody else editing the   *)
(* goals and every request succeeding after the runs up to FaultyRuns,     *)
(* the runs of main reach a point from which on the keys on the target     *)
(* goal are the keys in the backing file and no run issues a delete or a   *)
(* create or appends to the store; a run that follows a run which issued     *)
(* none and in which no request could fail issues none either; and when the reconciliation of such a   *)
(* later run is over, every key of the store is on the target goal, the    *)
(* keys of the derived records of earlier runs whose create failed         *)
(* included.                                                               *)
C18_RunsConverge ==
    /\ <>[](auth_token => (quiet_runs >= 1 /\ KeySet(target) = KeySet(file)))
    /\ [][(auth_token /\ quiet_runs >= 1 /\ LastRun > FaultyRuns) =>
            /\ calls' = calls \/ calls' = <<>>
            /\ db' = db \/ At("main_load") \/ MainOver]_vars
    /\ []((auth_token /\ SyncOver /\ runs > FaultyRuns) =>
            KeySet(db) \subseteq KeySet(target))

(* The reconciliation of the second run is over and has created, on the    *)
(* target goal, the derived record the qualifier of the first run appended *)
(* and failed to create.                                                   *)
C18_Witness ==
    /\ SyncOver
    /\ runs = FaultyRuns + 1
    /\ \E c \in Adds : \E j \in 1..Len(derived) :
          /\ calls[c].ok
          /\ calls[c].value = Val(1)
          /\ calls[c].timestamp = derived[j].timestamp
          /\ derived[j].run <= FaultyRuns
          /\ \E i \in 1..Len(target) : Key(target[i]) = CallKey(calls[c])

====
